---- MODULE Spec2Model ----
(***************************************************************************)
(* Model of the external scanner of the dang tree-sitter grammar           *)
(* (treesitter/src/scanner.c): the automatic-newline classifier and the    *)
(* four trivial lifecycle entry points.                                    *)
(*                                                                         *)
(* Characters are their code points.  The lexer (TSLexer, declared by      *)
(* tree_sitter/parser.h) is the cursor `pos` into `input`: `lookahead` is  *)
(* the character under the cursor, 0 at end-of-input; `advance` moves the  *)
(* cursor one character forward and stays put at end-of-input; `eof` tells *)
(* whether the cursor is at the end.  A NUL character inside the text has  *)
(* lookahead 0 as well, which is why the code asks eof instead.            *)
(***************************************************************************)
EXTENDS Integers, Sequences, FiniteSets, TLC

\* ---------------------------------------------------------------- bounds
\* longest input text
MaxLen == 3

\* ------------------------------------------------------------- constants
AUTOMATIC_NEWLINE == 0
\* a token kind of the host grammar that is not an external token
OTHER_SYMBOL == AUTOMATIC_NEWLINE + 1
NUL == 0
TAB == 9
LF == 10
CR == 13
SPACE == 32
DOT == 46
LBRACE == 123
PIPE == 124

\* 102 is 'f', a character the scanner has no case for
Alphabet == {NUL, TAB, LF, CR, SPACE, DOT, 102, LBRACE, PIPE}

\* ceiling of the ghost counter of advance calls of one scan; a scan of the
\* code never gets there
AdvCap == MaxLen + 2

Inputs == UNION {[1..n -> Alphabet] : n \in 0..MaxLen}

VARIABLES
    input,          \* the text the lexer reads
    pos,            \* the lexer's cursor: number of characters consumed
    result_symbol,  \* lexer->result_symbol
    payload,        \* the handle tree_sitter_dang_external_scanner_create returned
    serialized,     \* the length the last serialize returned
    pc,             \* where the running scan is; "idle" between calls
    permitted,      \* valid_symbols[AUTOMATIC_NEWLINE] of the running/last scan
    verdict,        \* what the last scan returned
    start,          \* ghost: cursor when the running/last scan was called
    rs0,            \* ghost: result_symbol when the running/last scan was called
    advances,       \* ghost: advance calls of the running/last scan
    writes,         \* ghost: writes of result_symbol by the running/last scan
    eofAdvance,     \* ghost: the running/last scan called advance at end-of-input
    resumed,        \* ghost: <<b>> when the running/last scan was called where
                    \*        a scan that returned false had left the cursor, b
                    \*        being that scan's permitted flag; <<>> otherwise
    ref,            \* ghost: the first run, kept for comparison with later ones
    mode            \* which host drives the scanner and which ghosts are kept:
                    \*   "resume": the host also chooses result_symbol, resumed is kept
                    \*   "runs":   ref is kept
                    \*   "plain":  neither

vars == <<input, pos, result_symbol, payload, serialized, pc, permitted,
          verdict, start, rs0, advances, writes, eofAdvance, resumed, ref,
          mode>>

lexerVars == <<pos, result_symbol>>
ghostCall == <<start, rs0, resumed, mode>>
ghostStep == <<advances, writes, eofAdvance>>

\* ----------------------------------------------------------------- lexer
\* mutant: end-of-input told by a zero lookahead
eofByLookahead(s, p) == (IF p < Len(s) THEN s[p + 1] ELSE NUL) = NUL

\* lexer->eof(lexer)
eof(s, p) == p >= Len(s)

\* lexer->lookahead
lookahead(s, p) == IF p < Len(s) THEN s[p + 1] ELSE NUL

\* cursor after lexer->advance(lexer, false)
advance(s, p) == IF p < Len(s) THEN p + 1 ELSE p

\* ------------------------------------------------------------- scanner.c
\* mutant: the pipe case is missing from the switch
is_continuation_start_NoPipe(c) == c \in {DOT, LBRACE}

is_continuation_start(c) == c \in {DOT, LBRACE, PIPE}

\* mutant: the loop stays on the line, '\n' is not skipped
IsSkippedNoLF(c) == c \in {SPACE, TAB, CR}

\* mutant: the loop also runs on a zero lookahead
IsSkippedOrNul(c) == c \in {SPACE, TAB, CR, LF, NUL}

\* the condition of the while loop
IsSkipped(c) == c \in {SPACE, TAB, CR, LF}

\* mutant: '\r' passes the guard as well
IsNewlineOrCR(c) == c \in {LF, CR}

\* the second guard
IsNewline(c) == c = LF

Separator == "Separator"
NotApplicable == "NotApplicable"

\* ------------------------------------------------------------ initial state
InitIn(m) ==
    /\ input \in Inputs
    /\ pos = 0
    /\ result_symbol = OTHER_SYMBOL
    /\ payload = "unset"
    /\ serialized = <<>>
    /\ pc = "idle"
    /\ permitted = FALSE
    /\ verdict = "none"
    /\ start = 0
    /\ rs0 = OTHER_SYMBOL
    /\ advances = 0
    /\ writes = 0
    /\ eofAdvance = FALSE
    /\ resumed = <<>>
    /\ ref = <<>>
    /\ mode = m

Init == InitIn("resume")

RunsInit == InitIn("runs")

PlainInit == InitIn("plain")

\* ---------------------------------------------------------- lifecycle
\* void *create(void) { return NULL; }
Create ==
    /\ pc = "idle"
    /\ payload' = "NULL"
    /\ UNCHANGED <<input, lexerVars, serialized, pc, permitted, verdict,
                   ghostCall, ghostStep, ref>>

\* void destroy(void *payload) {}
Destroy ==
    /\ pc = "idle"
    /\ UNCHANGED <<input, lexerVars, payload, serialized, pc, permitted,
                   verdict, ghostCall, ghostStep, ref>>

\* unsigned serialize(void *payload, char *buffer) { return 0; }
Serialize ==
    /\ pc = "idle"
    /\ serialized' = <<0>>
    /\ UNCHANGED <<input, lexerVars, payload, pc, permitted, verdict,
                   ghostCall, ghostStep, ref>>

\* void deserialize(void *payload, const char *buffer, unsigned length) {}
\* The host hands back a buffer serialize filled, with the length it returned.
Deserialize(length) ==
    /\ pc = "idle"
    /\ serialized # <<>>
    /\ length = serialized[1]
    /\ UNCHANGED <<input, lexerVars, payload, serialized, pc, permitted,
                   verdict, ghostCall, ghostStep, ref>>

\* ------------------------------------------------------------------ scan
\* The host places the cursor at p, leaves rs in result_symbol and calls
\* scan(payload, lexer, valid_symbols) with valid_symbols[AUTOMATIC_NEWLINE]
\* = perm.
ScanCall(p, perm, rs) ==
    /\ pc = "idle"
    /\ p \in 0..Len(input)
    /\ mode # "resume" => rs = result_symbol
    /\ pos' = p
    /\ result_symbol' = rs
    /\ permitted' = perm
    /\ pc' = "L42"
    /\ start' = p
    /\ rs0' = rs
    /\ resumed' = IF mode = "resume" /\ verdict = NotApplicable /\ p = pos
                      THEN <<permitted>> ELSE <<>>
    /\ advances' = 0
    /\ writes' = 0
    /\ eofAdvance' = FALSE
    /\ UNCHANGED <<input, payload, serialized, verdict, ref, mode>>

\* return v;  (the ghost ref keeps the first run that returns)
Return(v) ==
    /\ pc' = "idle"
    /\ verdict' = v
    /\ ref' = IF mode = "runs" /\ ref = <<>>
                 THEN <<[start |-> start, permitted |-> permitted,
                         verdict |-> v, pos |-> pos]>>
                 ELSE ref

\* falling through to the next statement
Goto(l) ==
    /\ pc' = l
    /\ UNCHANGED <<verdict, ref>>

\* lexer->advance(lexer, false);
Advance ==
    /\ pos' = advance(input, pos)
    /\ advances' = IF advances < AdvCap THEN advances + 1 ELSE advances
    /\ eofAdvance' = (eofAdvance \/ eof(input, pos))

\* mutant: the scanner remembers that it has just emitted a separator and
\* refuses to emit another
GuardPermittedOnce ==
    /\ pc = "L42"
    /\ IF ~permitted \/ verdict = Separator THEN Return(NotApplicable)
                                            ELSE Goto("L47")
    /\ UNCHANGED <<input, lexerVars, payload, serialized, permitted,
                   ghostCall, ghostStep>>

\* if (!valid_symbols[AUTOMATIC_NEWLINE]) return false;
GuardPermitted ==
    /\ pc = "L42"
    /\ IF ~permitted THEN Return(NotApplicable) ELSE Goto("L47")
    /\ UNCHANGED <<input, lexerVars, payload, serialized, permitted,
                   ghostCall, ghostStep>>

\* mutant: == in place of !=
GuardNewlineInverted ==
    /\ pc = "L47"
    /\ IF IsNewline(lookahead(input, pos)) THEN Return(NotApplicable)
                                          ELSE Goto("L52")
    /\ UNCHANGED <<input, lexerVars, payload, serialized, permitted,
                   ghostCall, ghostStep>>

\* if (lexer->lookahead != '\n') return false;
GuardNewline ==
    /\ pc = "L47"
    /\ IF ~IsNewline(lookahead(input, pos)) THEN Return(NotApplicable)
                                           ELSE Goto("L52")
    /\ UNCHANGED <<input, lexerVars, payload, serialized, permitted,
                   ghostCall, ghostStep>>

\* mutant: the token is marked as soon as the newline is consumed
ConsumeNewlineMarking ==
    /\ pc = "L52"
    /\ Advance
    /\ result_symbol' = AUTOMATIC_NEWLINE
    /\ writes' = writes + 1
    /\ Goto("L56")
    /\ UNCHANGED <<input, payload, serialized, permitted, ghostCall>>

\* Consume the newline.
ConsumeNewline ==
    /\ pc = "L52"
    /\ Advance
    /\ Goto("L56")
    /\ UNCHANGED <<input, result_symbol, payload, serialized, permitted,
                   ghostCall, writes>>

\* one test of the while condition, and one run of its body when it holds
SkipWhitespace ==
    /\ pc = "L56"
    /\ IF IsSkipped(lookahead(input, pos))
          THEN Advance /\ Goto("L56")
          ELSE Goto("L63") /\ UNCHANGED <<pos, advances, eofAdvance>>
    /\ UNCHANGED <<input, result_symbol, payload, serialized, permitted,
                   ghostCall, writes>>

\* if (is_continuation_start(lexer->lookahead)) return false;
CheckContinuation ==
    /\ pc = "L63"
    /\ IF is_continuation_start(lookahead(input, pos))
          THEN Return(NotApplicable)
          ELSE Goto("L68")
    /\ UNCHANGED <<input, lexerVars, payload, serialized, permitted,
                   ghostCall, ghostStep>>

\* mutant: the end-of-input test is missing
CheckEofMissing ==
    /\ pc = "L68"
    /\ Goto("L73")
    /\ UNCHANGED <<input, lexerVars, payload, serialized, permitted,
                   ghostCall, ghostStep>>

\* if (lexer->eof(lexer)) return false;
CheckEof ==
    /\ pc = "L68"
    /\ IF eof(input, pos) THEN Return(NotApplicable) ELSE Goto("L73")
    /\ UNCHANGED <<input, lexerVars, payload, serialized, permitted,
                   ghostCall, ghostStep>>

\* lexer->result_symbol = AUTOMATIC_NEWLINE; return true;
EmitSeparator ==
    /\ pc = "L73"
    /\ result_symbol' = AUTOMATIC_NEWLINE
    /\ writes' = writes + 1
    /\ Return(Separator)
    /\ UNCHANGED <<input, pos, payload, serialized, permitted, ghostCall,
                   advances, eofAdvance>>

\* the steps inside one call of scan
ScanStep ==
    \/ GuardPermitted
    \/ GuardNewline
    \/ ConsumeNewline
    \/ SkipWhitespace
    \/ CheckContinuation
    \/ CheckEof
    \/ EmitSeparator

Next ==
    \/ Create
    \/ Destroy
    \/ Serialize
    \/ \E length \in {0} : Deserialize(length)
    \/ \E p \in 0..MaxLen, perm \in BOOLEAN,
          rs \in {AUTOMATIC_NEWLINE, OTHER_SYMBOL} : ScanCall(p, perm, rs)
    \/ GuardPermitted
    \/ GuardNewline
    \/ ConsumeNewline
    \/ SkipWhitespace
    \/ CheckContinuation
    \/ CheckEof
    \/ EmitSeparator

\* the host chooses result_symbol; resumption after a false return is observed
Spec == Init /\ [][Next]_vars

\* the first run is kept and every later run is compared with it
RunsSpec == RunsInit /\ [][Next]_vars

\* scan is an ordinary synchronous C function: once called it keeps running
\* until it returns
LiveSpec == PlainInit /\ [][Next]_vars /\ WF_vars(ScanStep)

\* ================================================================ claims
Whitespace == {SPACE, TAB, CR, LF}

ContinuationChars == {DOT, LBRACE, PIPE}

\* a scan has returned and nothing was called since that changes its record
Done == pc = "idle" /\ verdict # "none"

\* the last scan was called on a '\n'
OnNewline == start < Len(input) /\ input[start + 1] = LF

\* both guards of the last scan passed
Passed == permitted /\ OnNewline

\* end of the maximal run of whitespace that begins at p
FirstSignificant(s, p) ==
    CHOOSE q \in p..Len(s) :
        /\ \A r \in p..(q - 1) : s[r + 1] \in Whitespace
        /\ q < Len(s) => s[q + 1] \notin Whitespace

\* where the last scan's search ended, according to the text alone
Target == FirstSignificant(input, start + 1)

\* C1: scan returns Separator exactly when permitted is true, the cursor is
\* on '\n', and after the newline and the maximal run of space, tab, CR, LF
\* the cursor is not at end-of-input and not on '.', '{' or '|'; in every
\* other case it returns NotApplicable.
C1_SeparatorIff ==
    Done =>
        /\ verdict \in {Separator, NotApplicable}
        /\ verdict = Separator <=>
              /\ permitted
              /\ OnNewline
              /\ Target < Len(input)
              /\ input[Target + 1] \notin ContinuationChars

\* a Separator found behind skipped whitespace, on a NUL character
C1_Witness ==
    /\ Done
    /\ verdict = Separator
    /\ pos > start + 1
    /\ input[pos + 1] = NUL

\* C2: called with permitted false or with the cursor not on '\n' (on '\r',
\* on a space, at end-of-input), scan returns NotApplicable, calls advance
\* zero times and leaves the cursor where it was.
C2_GuardsLeaveCursor ==
    Done /\ ~Passed =>
        /\ verdict = NotApplicable
        /\ advances = 0
        /\ pos = start

\* permitted, but the cursor is on '\r' with a newline right behind it
C2_Witness ==
    /\ Done
    /\ permitted
    /\ start + 1 < Len(input)
    /\ input[start + 1] = CR
    /\ input[start + 2] = LF
    /\ pos = start

\* C3: when both guards pass and the first character after the newline that
\* is not space, tab, CR or LF is '.', '{' or '|', scan returns NotApplicable
\* with the cursor immediately before that character.
C3_ContinuationNotApplicable ==
    Done /\ Passed /\ Target < Len(input)
         /\ input[Target + 1] \in ContinuationChars =>
        /\ verdict = NotApplicable
        /\ pos = Target

\* a pipe behind a newline and more whitespace
C3_Witness ==
    /\ Done
    /\ Passed
    /\ verdict = NotApplicable
    /\ pos > start + 1
    /\ pos < Len(input)
    /\ input[pos + 1] = PIPE

\* C4: when both guards pass and only space, tab, CR, LF follow up to
\* end-of-input, scan returns NotApplicable; no Separator is returned with
\* the cursor at end-of-input.
C4_NoSeparatorAtEof ==
    /\ Done /\ Passed /\ Target = Len(input) => verdict = NotApplicable
    /\ Done /\ verdict = Separator => pos < Len(input)

\* trailing newline and whitespace up to end-of-input
C4_Witness ==
    /\ Done
    /\ Passed
    /\ verdict = NotApplicable
    /\ pos = Len(input)
    /\ pos > start + 1

\* C5: when both guards pass, whatever the verdict, the cursor ends at the
\* first position after the initial newline that is end-of-input or holds a
\* character other than space, tab, CR, LF; only the newline and such
\* whitespace is consumed.
C5_CursorAtFirstSignificant ==
    Done /\ Passed =>
        /\ pos = Target
        /\ advances = pos - start
        /\ \A i \in (start + 1)..(pos - 1) : input[i + 1] \in Whitespace

\* a blank line is skipped on the way to a significant character
C5_Witness ==
    /\ Done
    /\ Passed
    /\ verdict = Separator
    /\ pos >= start + 2
    /\ input[start + 2] = LF

\* the call that returned false, and the call made where it left the cursor
Recalled == Done /\ resumed # <<>>

C7_Terminates ==
    /\ (pc # "idle") ~> (pc = "idle")
    /\ [](advances <= Len(input) - start)
    /\ [][pc = "L56" /\ pc' = "L56" => pos' = pos + 1]_vars

\* a call that consumed the whole text
C7_Witness ==
    /\ Done
    /\ start = 0
    /\ advances = Len(input)
    /\ advances >= 3

\* C8: create returns NULL, serialize returns 0, and two runs of scan on the
\* same text from the same cursor with the same permitted end with the same
\* verdict and cursor, whatever was called before them.
C8_Stateless ==
    /\ payload \in {"unset", "NULL"}
    /\ serialized \in {<<>>, <<0>>}
    /\ Done /\ ref # <<>> /\ ref[1].start = start
            /\ ref[1].permitted = permitted =>
          /\ verdict = ref[1].verdict
          /\ pos = ref[1].pos

\* a later run that repeats the first one, after create, serialize and a
\* scan that left AUTOMATIC_NEWLINE in result_symbol
C8_Witness ==
    /\ Done
    /\ ref # <<>>
    /\ ref[1].start = start
    /\ ref[1].permitted = permitted
    /\ verdict = Separator
    /\ rs0 = AUTOMATIC_NEWLINE
    /\ payload = "NULL"
    /\ serialized = <<0>>

\* C9: scan never calls advance with the cursor at end-of-input.
C9_NoAdvanceAtEof == ~eofAdvance

\* the loop ran into end-of-input and stopped there
C9_Witness ==
    /\ Done
    /\ pos = Len(input)
    /\ advances >= 2

\* C10: scan writes result_symbol exactly once, with AUTOMATIC_NEWLINE, when
\* it returns Separator, and not at all before it returns NotApplicable.
C10_ResultSymbol ==
    /\ pc # "idle" => writes = 0 /\ result_symbol = rs0
    /\ Done /\ verdict = NotApplicable => writes = 0 /\ result_symbol = rs0
    /\ Done /\ verdict = Separator =>
          writes = 1 /\ result_symbol = AUTOMATIC_NEWLINE

\* NotApplicable after consuming, the host's symbol still in place
C10_Witness ==
    /\ Done
    /\ verdict = NotApplicable
    /\ advances >= 2
    /\ rs0 = OTHER_SYMBOL
    /\ result_symbol = OTHER_SYMBOL

====
